---- MODULE Spec2Model ----
(***************************************************************************)
(* Birthday-paradox calculator (src/app.py): calendar tables, random       *)
(* birthday generation, duplicate detection, the exact collision           *)
(* probability in IEEE-754 binary64 arithmetic, the linear search for the  *)
(* smallest group, and the two Monte Carlo loops.                          *)
(***************************************************************************)
EXTENDS Integers, Sequences, FiniteSets

(***************************************************************************)
(* Natural numbers of arbitrary size: little-endian sequences of limbs in  *)
(* base 2^15, without leading zero limbs (<<>> is 0).  They carry the      *)
(* 53-bit significands of Python floats and the exact intermediate results *)
(* of float operations before rounding.                                    *)
(***************************************************************************)
Base == 2^15

Max(a, b) == IF a >= b THEN a ELSE b

Min(a, b) == IF a <= b THEN a ELSE b

RECURSIVE Pow2(_)
Pow2(k) == IF k = 0 THEN 1 ELSE 2 * Pow2(k - 1)

RECURSIVE BNorm(_)
BNorm(a) ==
    IF a = <<>> THEN <<>>
    ELSE IF a[Len(a)] = 0 THEN BNorm(SubSeq(a, 1, Len(a) - 1))
    ELSE a

BFromInt(k) ==
    IF k = 0 THEN <<>>
    ELSE IF k < Base THEN <<k>>
    ELSE IF k < Base * Base THEN <<k % Base, k \div Base>>
    ELSE <<k % Base, (k \div Base) % Base, k \div (Base * Base)>>

BDigit(a, i) == IF i <= Len(a) THEN a[i] ELSE 0

RECURSIVE BAddFrom(_, _, _, _)
BAddFrom(a, b, i, carry) ==
    IF i > Len(a) /\ i > Len(b)
    THEN IF carry = 0 THEN <<>> ELSE <<carry>>
    ELSE LET s == BDigit(a, i) + BDigit(b, i) + carry
         IN  <<s % Base>> \o BAddFrom(a, b, i + 1, s \div Base)

BAdd(a, b) == BAddFrom(a, b, 1, 0)

\* a - b for a >= b
RECURSIVE BSubFrom(_, _, _, _)
BSubFrom(a, b, i, borrow) ==
    IF i > Len(a) THEN <<>>
    ELSE LET s == BDigit(a, i) - BDigit(b, i) - borrow
         IN  IF s < 0 THEN <<s + Base>> \o BSubFrom(a, b, i + 1, 1)
             ELSE <<s>> \o BSubFrom(a, b, i + 1, 0)

BSub(a, b) == BNorm(BSubFrom(a, b, 1, 0))

\* -1, 0, 1 as a < b, a = b, a > b
RECURSIVE BCmpFrom(_, _, _)
BCmpFrom(a, b, i) ==
    IF i = 0 THEN 0
    ELSE IF a[i] < b[i] THEN -1
    ELSE IF a[i] > b[i] THEN 1
    ELSE BCmpFrom(a, b, i - 1)

BCmp(a, b) ==
    IF Len(a) < Len(b) THEN -1
    ELSE IF Len(a) > Len(b) THEN 1
    ELSE BCmpFrom(a, b, Len(a))

\* a * k for 0 <= k < Base
RECURSIVE BMulSmallFrom(_, _, _, _)
BMulSmallFrom(a, k, i, carry) ==
    IF i > Len(a)
    THEN IF carry = 0 THEN <<>> ELSE <<carry>>
    ELSE LET s == a[i] * k + carry
         IN  <<s % Base>> \o BMulSmallFrom(a, k, i + 1, s \div Base)

BMulSmall(a, k) == IF k = 0 THEN <<>> ELSE BMulSmallFrom(a, k, 1, 0)

BShiftLimbs(a, k) == IF a = <<>> THEN <<>> ELSE [i \in 1..k |-> 0] \o a

RECURSIVE BMulFrom(_, _, _)
BMulFrom(a, b, i) ==
    IF i > Len(b) THEN <<>>
    ELSE BAdd(BShiftLimbs(BMulSmall(a, b[i]), i - 1), BMulFrom(a, b, i + 1))

BMul(a, b) == BMulFrom(a, b, 1)

\* <<quotient, remainder>> of a by d, for 1 <= d < Base
RECURSIVE BDivSmallFrom(_, _, _, _)
BDivSmallFrom(a, d, i, rem) ==
    IF i = 0 THEN <<<<>>, rem>>
    ELSE LET cur  == rem * Base + a[i]
             rest == BDivSmallFrom(a, d, i - 1, cur % d)
         IN  <<rest[1] \o <<cur \div d>>, rest[2]>>

BDivSmall(a, d) ==
    LET r == BDivSmallFrom(a, d, Len(a), 0)
    IN  <<BNorm(r[1]), r[2]>>

\* a * 2^k
BShl(a, k) == BShiftLimbs(BMulSmall(a, Pow2(k % 15)), k \div 15)

\* <<a \div 2^k, whether a nonzero bit was shifted out>>
BShr(a, k) ==
    LET limbs == Min(k \div 15, Len(a))
        lost  == \E i \in 1..limbs : a[i] # 0
        d     == BDivSmall(SubSeq(a, limbs + 1, Len(a)), Pow2(k % 15))
    IN  <<d[1], lost \/ d[2] # 0>>

RECURSIVE BitLenInt(_)
BitLenInt(k) == IF k = 0 THEN 0 ELSE 1 + BitLenInt(k \div 2)

BBitLen(a) == IF a = <<>> THEN 0 ELSE 15 * (Len(a) - 1) + BitLenInt(a[Len(a)])

BIsOdd(a) == a # <<>> /\ a[1] % 2 = 1

(***************************************************************************)
(* Python floats (IEEE-754 binary64, round-to-nearest-even).  A float is   *)
(* [neg, m, e] with value (-1)^neg * m * 2^e: m has exactly MantBits bits  *)
(* for a normal number, fewer with e = MinExp for a subnormal one, and     *)
(* m = <<>>, e = 0 for zero.  The representation is canonical, so float    *)
(* equality is record equality.  Every value of this program lies in       *)
(* [-1, 1], so the overflow to infinity is never reached.                  *)
(***************************************************************************)
MantBits == 53

MinExp == -1074

FZero == [neg |-> FALSE, m |-> <<>>, e |-> 0]

\* The float nearest to (-1)^neg * (N / D) * 2^E, ties to even; 1 <= D < Base.
FRound(neg, N, D, E) ==
    IF N = <<>> THEN FZero
    ELSE LET s     == Max(0, MantBits + 17 - BBitLen(N))
             qr    == BDivSmall(BShl(N, s), D)
             e0    == E - s
             drop  == Max(BBitLen(qr[1]) - MantBits, MinExp - e0)
             sh    == BShr(qr[1], drop - 1)
             m0    == BShr(sh[1], 1)[1]
             up    == BIsOdd(sh[1]) /\ (sh[2] \/ qr[2] # 0 \/ BIsOdd(m0))
             m1    == IF up THEN BAdd(m0, <<1>>) ELSE m0
             carry == BBitLen(m1) > MantBits
             m     == IF carry THEN BShr(m1, 1)[1] ELSE m1
         IN  IF m = <<>> THEN FZero
             ELSE [neg |-> neg, m |-> m,
                   e |-> IF carry THEN e0 + drop + 1 ELSE e0 + drop]

\* The float of the rational p / q (q >= 1): a literal such as 0.99, or the
\* true division p / q of two ints, which Python rounds correctly.
FRat(p, q) == FRound(p < 0, BFromInt(IF p < 0 THEN -p ELSE p), q, 0)

FOne == FRat(1, 1)

\* a * b
FMul(a, b) == FRound(a.neg # b.neg, BMul(a.m, b.m), 1, a.e + b.e)

\* 1.0 - a for 0 <= a <= 1.  Below 2^-54 the exact difference lies closer to
\* 1.0 than to the float under it, so it rounds to 1.0.
FOneMinus(a) ==
    IF a.m = <<>> \/ a.e + BBitLen(a.m) <= -54 THEN FOne
    ELSE FRound(FALSE, BSub(BShl(<<1>>, -a.e), a.m), 1, a.e)

\* -1, 0, 1 as |a| < |b|, |a| = |b|, |a| > |b|
FCmpMag(a, b) ==
    LET ka == a.e + BBitLen(a.m)
        kb == b.e + BBitLen(b.m)
    IN  IF a.m = <<>> \/ b.m = <<>>
        THEN (IF a.m = b.m THEN 0 ELSE IF a.m = <<>> THEN -1 ELSE 1)
        ELSE IF ka < kb THEN -1
        ELSE IF ka > kb THEN 1
        ELSE IF a.e >= b.e THEN BCmp(BShl(a.m, a.e - b.e), b.m)
        ELSE BCmp(a.m, BShl(b.m, b.e - a.e))

\* a < b
FLt(a, b) ==
    IF a.neg /\ ~b.neg THEN TRUE
    ELSE IF ~a.neg /\ b.neg THEN FALSE
    ELSE IF a.neg THEN FCmpMag(a, b) = 1
    ELSE FCmpMag(a, b) = -1

\* a <= b
FLe(a, b) == ~FLt(b, a)

(***************************************************************************)
(* Bounds of the model                                                     *)
(***************************************************************************)
\* group sizes n run over -1..MaxGroup
MaxGroup == 4

\* lengths of the date lists handed to the duplicate detectors: 0..MaxDates
MaxDates == 3

\* trials run over 0..MaxTrials
MaxTrials == 3

\* days run over -1..MaxDays, besides the program's own 365
MaxDays == 8

(***************************************************************************)
(* Calendar helpers                                                        *)
(***************************************************************************)
MONTH_LENGTHS_COMMON == <<31, 28, 31, 30, 31, 30, 31, 31, 30, 31, 30, 31>>

MONTH_LENGTHS_LEAP == <<31, 29, 31, 30, 31, 30, 31, 31, 30, 31, 30, 31>>

month_lengths(include_leap) ==
    IF include_leap THEN MONTH_LENGTHS_LEAP ELSE MONTH_LENGTHS_COMMON

\* datetime.date(year, month, day): the date, or ValueError when the day does
\* not exist in that month of that year.
IsLeapYear(year) == year % 4 = 0 /\ (year % 100 # 0 \/ year % 400 = 0)

DaysInMonth(year, month) ==
    IF month = 2 /\ IsLeapYear(year) THEN 29 ELSE MONTH_LENGTHS_COMMON[month]

\* The outcome of a call: the value it returns, or the exception it raises.
Returned(v) == [exc |-> "", value |-> v]

Raised(e) == [exc |-> e, value |-> <<>>]

ValueError == "ValueError"

ZeroDivisionError == "ZeroDivisionError"

date(year, month, day) ==
    IF /\ 1 <= year /\ year <= 9999
       /\ 1 <= month /\ month <= 12
       /\ 1 <= day /\ day <= DaysInMonth(year, month)
    THEN Returned([year |-> year, month |-> month, day |-> day])
    ELSE Raised(ValueError)

(***************************************************************************)
(* Birthday generators.  The random source is a nondeterministic choice:   *)
(* each generator is the set of outcomes it can produce.                   *)
(***************************************************************************)
DefaultYear == 2001

\* The months and days the random source is explored on: January and
\* February, and the first and the last day of the month.
SampleMonths == {1, 2}

SampleDays(L) == {1, L}

\* random.choices(range(1, 13), weights=months, k=1)[0]: a month of positive
\* weight
MonthDraws(months) == {m \in (1..12) \cap SampleMonths : months[m] > 0}

\* random.randint(1, L)
DayDraws(L) == (1..L) \cap SampleDays(L)

random_birthday(year, include_leap) ==
    LET months == month_lengths(include_leap)
    IN  UNION {{date(year, month, day) : day \in DayDraws(months[month])} :
                   month \in MonthDraws(months)}

\* [random_birthday(include_leap=include_leap) for _ in range(n)]: a list of
\* n dates, or the exception of the first draw that raises.
generate_group(n, include_leap) ==
    LET draws == random_birthday(DefaultYear, include_leap)
        good  == {o.value : o \in {x \in draws : x.exc = ""}}
        bad   == {o \in draws : o.exc # ""}
        len   == Max(n, 0)
    IN  {Returned(g) : g \in [1..len -> good]}
            \cup (IF len >= 1 THEN bad ELSE {})

(***************************************************************************)
(* Duplicate detection.  A dict is a function on its keys.                 *)
(***************************************************************************)
\* md_pairs keeping the year in the pair
md_pairs_with_year(dates) ==
    [i \in 1..Len(dates) |-> <<dates[i].year, dates[i].month, dates[i].day>>]

md_pairs(dates) == [i \in 1..Len(dates) |-> <<dates[i].month, dates[i].day>>]

has_shared_birthday(dates) ==
    LET md == md_pairs(dates)
    IN  Len(md) # Cardinality({md[i] : i \in 1..Len(md)})

\* counts[key] += 1 on a dict whose missing keys read 0
Incremented(counts, key) ==
    [k \in DOMAIN counts \cup {key} |->
        IF k = key THEN (IF key \in DOMAIN counts THEN counts[key] + 1 ELSE 1)
        ELSE counts[k]]

\* collections.Counter(md): one pass over the list
RECURSIVE Counter(_, _, _)
Counter(md, i, counts) ==
    IF i > Len(md) THEN counts
    ELSE Counter(md, i + 1, Incremented(counts, md[i]))

\* find_shared_birthdays with the filter written v >= 1
find_shared_birthdays_all(dates) ==
    LET counts == Counter(md_pairs(dates), 1, <<>>)
    IN  [k \in {key \in DOMAIN counts : counts[key] >= 1} |-> counts[k]]

find_shared_birthdays(dates) ==
    LET counts == Counter(md_pairs(dates), 1, <<>>)
    IN  [k \in {key \in DOMAIN counts : counts[key] > 1} |-> counts[k]]

(***************************************************************************)
(* Probability calculations                                                *)
(***************************************************************************)
\* The loop of exact_probability: p_all_diff after the iterations i..n-1,
\* entered with the product p of the iterations before i.  A product that has
\* reached zero stays zero under every further factor, so it is returned as
\* it is; the test also has p evaluated before the next iteration starts.
RECURSIVE p_all_diff(_, _, _, _)
p_all_diff(p, i, n, days) ==
    IF i >= n \/ p = FZero THEN p
    ELSE p_all_diff(FMul(p, FRat(days - i, days)), i + 1, n, days)

\* exact_probability returning the all-different probability itself
exact_probability_no_complement(n, days) ==
    IF n <= 1 THEN FZero
    ELSE IF n > days THEN FOne
    ELSE p_all_diff(FOne, 0, n, days)

\* exact_probability with the first guard written n <= 2
exact_probability_wide_zero(n, days) ==
    IF n <= 2 THEN FZero
    ELSE IF n > days THEN FOne
    ELSE FOneMinus(p_all_diff(FOne, 0, n, days))

\* exact_probability with the first guard written n < 1
exact_probability_narrow_zero(n, days) ==
    IF n < 1 THEN FZero
    ELSE IF n > days THEN FOne
    ELSE FOneMinus(p_all_diff(FOne, 0, n, days))

exact_probability(n, days) ==
    IF n <= 1 THEN FZero
    ELSE IF n > days THEN FOne
    ELSE FOneMinus(p_all_diff(FOne, 0, n, days))

(***************************************************************************)
(* Exploration utilities                                                   *)
(***************************************************************************)
\* the bucket choice without its last branch
bucket_label_two(k) ==
    IF k = 0 THEN "0 days with duplicates" ELSE "1 day with duplicates"

bucket_label(k) ==
    IF k = 0 THEN "0 days with duplicates"
    ELSE IF k = 1 THEN "1 day with duplicates"
    ELSE "2+ days with duplicates"

(***************************************************************************)
(* The program as a state machine: one call at a time, from the idle       *)
(* state.  pc is the position in the running function; n, days, target,    *)
(* include_leap, trials and dates are its arguments and locals (n is the   *)
(* loop variable of smallest_group_for, dates the list under inspection or *)
(* the group of the current simulation trial, dups the dict of the current *)
(* histogram trial); done counts the loop iterations completed; ret is the *)
(* value returned and exc the exception raised ("" for none).              *)
(***************************************************************************)
VARIABLES pc, n, days, target, include_leap, trials, dates, dups, done,
          hits, buckets, ret, exc

vars == <<pc, n, days, target, include_leap, trials, dates, dups, done,
          hits, buckets, ret, exc>>

DAYS == 365

\* The inputs explored
GroupSizes == -1..MaxGroup

DayCounts == -1..MaxDays

ProbabilitySizes == -1..(MaxDays + 2)

\* exact_probability is explored on every small input, and on the program's
\* own calls exact_probability(n, DAYS) for the table rows n = 2..30.
ProbabilityInputs == (ProbabilitySizes \X DayCounts) \cup ((2..30) \X {DAYS})

Targets == {FRat(-1, 2), FZero, FRat(1, 4), FRat(1, 3), FRat(50, 100),
            FRat(5, 9), FRat(99, 100), FOne}

\* smallest_group_for is explored on every small day count, and on the
\* program's own two calls smallest_group_for(0.50, DAYS) and (0.99, DAYS).
SearchInputs ==
    (Targets \X (DayCounts \ {-1})) \cup ({FRat(50, 100), FRat(99, 100)} \X {DAYS})

SampleYears == {2000, DefaultYear}

SampleDates ==
    {o.value : o \in {x \in UNION {{date(y, m, d) : d \in DayDraws(DaysInMonth(y, m))} :
                                      <<y, m>> \in SampleYears \X SampleMonths} :
                          x.exc = ""}}

DateLists == UNION {[1..len -> SampleDates] : len \in 0..MaxDates}

Init ==
    /\ pc = "idle"
    /\ n = 0
    /\ days = DAYS
    /\ target = FRat(50, 100)
    /\ include_leap = FALSE
    /\ trials = 0
    /\ dates = <<>>
    /\ dups = <<>>
    /\ done = 0
    /\ hits = 0
    /\ buckets = <<>>
    /\ ret = "None"
    /\ exc = ""

\* exact_probability(n, days)
CallExactProbability ==
    /\ pc = "idle"
    /\ \E in \in ProbabilityInputs :
          /\ n' = in[1]
          /\ days' = in[2]
          /\ ret' = exact_probability(in[1], in[2])
    /\ pc' = "ep_done"
    /\ UNCHANGED <<dups, target, include_leap, trials, dates, done, hits, buckets, exc>>

\* smallest_group_for(target, days): n = 1
CallSmallestGroupFor ==
    /\ pc = "idle"
    /\ \E in \in SearchInputs :
          /\ target' = in[1]
          /\ days' = in[2]
    /\ n' = 1
    /\ pc' = "sg_loop"
    /\ UNCHANGED <<dups, include_leap, trials, dates, done, hits, buckets, ret, exc>>

\* the loop test written <=
scan_continues_le(nn, tt, dd) == ~FLt(tt, exact_probability(nn, dd))

\* while exact_probability(n, days) < target
scan_continues(nn, tt, dd) == FLt(exact_probability(nn, dd), tt)

\* the loop body written n += 2
SgLoopSkip ==
    /\ pc = "sg_loop"
    /\ FLt(exact_probability(n, days), target)
    /\ n' = n + 2
    /\ UNCHANGED <<dups, pc, days, target, include_leap, trials, dates, done, hits,
                   buckets, ret, exc>>

\* n += 1
SgLoop ==
    /\ pc = "sg_loop"
    /\ scan_continues(n, target, days)
    /\ n' = n + 1
    /\ UNCHANGED <<dups, pc, days, target, include_leap, trials, dates, done, hits,
                   buckets, ret, exc>>

\* return n
SgReturn ==
    /\ pc = "sg_loop"
    /\ ~scan_continues(n, target, days)
    /\ ret' = n
    /\ pc' = "sg_done"
    /\ UNCHANGED <<dups, n, days, target, include_leap, trials, dates, done, hits,
                   buckets, exc>>

\* has_shared_birthday(dates)
CallHasSharedBirthday ==
    /\ pc = "idle"
    /\ \E ds \in DateLists :
          /\ dates' = ds
          /\ ret' = has_shared_birthday(ds)
    /\ pc' = "hs_done"
    /\ UNCHANGED <<dups, n, days, target, include_leap, trials, done, hits, buckets, exc>>

\* find_shared_birthdays(dates)
CallFindSharedBirthdays ==
    /\ pc = "idle"
    /\ \E ds \in DateLists :
          /\ dates' = ds
          /\ ret' = find_shared_birthdays(ds)
    /\ pc' = "fs_done"
    /\ UNCHANGED <<dups, n, days, target, include_leap, trials, done, hits, buckets, exc>>

\* generate_group(n, include_leap)
CallGenerateGroup ==
    /\ pc = "idle"
    /\ \E nn \in GroupSizes, leap \in BOOLEAN :
          /\ n' = nn
          /\ include_leap' = leap
          /\ \E o \in generate_group(nn, leap) :
                IF o.exc # ""
                THEN exc' = o.exc /\ UNCHANGED ret
                ELSE ret' = o.value /\ UNCHANGED exc
    /\ pc' = "gg_done"
    /\ UNCHANGED <<dups, days, target, trials, dates, done, hits, buckets>>

\* simulated_probability(n, trials, include_leap): hits = 0
CallSimulatedProbability ==
    /\ pc = "idle"
    /\ \E nn \in GroupSizes, tr \in 0..MaxTrials, leap \in BOOLEAN :
          /\ n' = nn
          /\ trials' = tr
          /\ include_leap' = leap
    /\ hits' = 0
    /\ done' = 0
    /\ pc' = "sim_loop"
    /\ UNCHANGED <<dups, days, target, dates, buckets, ret, exc>>

\* one iteration of for _ in range(trials): the group is generated and
\* inspected, or the generator's exception leaves the function
SimTrial ==
    /\ pc = "sim_loop"
    /\ done < trials
    /\ \E o \in generate_group(n, include_leap) :
          IF o.exc # ""
          THEN /\ exc' = o.exc
               /\ pc' = "sim_done"
               /\ UNCHANGED <<dates, hits, done>>
          ELSE /\ dates' = o.value
               /\ hits' = IF has_shared_birthday(o.value) THEN hits + 1 ELSE hits
               /\ done' = done + 1
               /\ UNCHANGED <<pc, exc>>
    /\ UNCHANGED <<dups, n, days, target, include_leap, trials, buckets, ret>>

\* return hits / trials
SimReturn ==
    /\ pc = "sim_loop"
    /\ done >= trials
    /\ IF trials = 0
       THEN exc' = ZeroDivisionError /\ UNCHANGED ret
       ELSE ret' = FRat(hits, trials) /\ UNCHANGED exc
    /\ pc' = "sim_done"
    /\ UNCHANGED <<dups, n, days, target, include_leap, trials, dates, done, hits, buckets>>

\* collision_histogram(n, trials, include_leap): buckets = defaultdict(int)
CallCollisionHistogram ==
    /\ pc = "idle"
    /\ \E nn \in GroupSizes, tr \in 0..MaxTrials, leap \in BOOLEAN :
          /\ n' = nn
          /\ trials' = tr
          /\ include_leap' = leap
    /\ buckets' = <<>>
    /\ done' = 0
    /\ pc' = "hist_loop"
    /\ UNCHANGED <<dups, days, target, dates, hits, ret, exc>>

\* one iteration of for _ in range(trials)
HistTrial ==
    /\ pc = "hist_loop"
    /\ done < trials
    /\ \E o \in generate_group(n, include_leap) :
          IF o.exc # ""
          THEN /\ exc' = o.exc
               /\ pc' = "hist_done"
               /\ UNCHANGED <<dups, buckets, done>>
          ELSE /\ dups' = find_shared_birthdays(o.value)
               /\ LET k == Cardinality(DOMAIN dups')
                  IN  buckets' = Incremented(buckets, bucket_label(k))
               /\ done' = done + 1
               /\ UNCHANGED <<pc, exc>>
    /\ UNCHANGED <<n, days, target, include_leap, trials, dates, hits, ret>>

\* return dict(buckets)
HistReturn ==
    /\ pc = "hist_loop"
    /\ done >= trials
    /\ ret' = buckets
    /\ pc' = "hist_done"
    /\ UNCHANGED <<dups, n, days, target, include_leap, trials, dates, done, hits,
                   buckets, exc>>

\* The probability engine
NextProb == CallExactProbability \/ CallSmallestGroupFor \/ SgLoop \/ SgReturn

SpecProb == Init /\ [][NextProb]_vars

\* The duplicate detector
NextDup == CallHasSharedBirthday \/ CallFindSharedBirthdays

SpecDup == Init /\ [][NextDup]_vars

\* The generator and the Monte Carlo estimate
NextSim == CallGenerateGroup \/ CallSimulatedProbability \/ SimTrial \/ SimReturn

SpecSim == Init /\ [][NextSim]_vars

\* The collision histogram
NextHist == CallCollisionHistogram \/ HistTrial \/ HistReturn

SpecHist == Init /\ [][NextHist]_vars

Next == NextProb \/ NextDup \/ NextSim \/ NextHist

Spec == Init /\ [][Next]_vars

(***************************************************************************)
(* Properties                                                              *)
(***************************************************************************)
\* The number of positions of dates that hold the day-of-year md
Occurrences(ds, md) ==
    Cardinality({i \in 1..Len(ds) : <<ds[i].month, ds[i].day>> = md})

\* The days of the year held by some position of dates
DaysOf(ds) == {<<ds[i].month, ds[i].day>> : i \in 1..Len(ds)}

\* The days of the year held by at least two positions of dates
CollidingDays(ds) == {md \in DaysOf(ds) : Occurrences(ds, md) >= 2}

InUnitInterval(x) == FLe(FZero, x) /\ FLe(x, FOne)

\* C1: for a target in [0, 1] and days >= 1, smallest_group_for returns an
\* n >= 1 with exact_probability(n, days) >= target, while every m in 1..n-1
\* has exact_probability(m, days) < target; with 365 days it returns 23 for
\* the target 0.5 and 57 for the target 0.99.
SmallestGroupIsLeast ==
    (pc = "sg_done" /\ days >= 1 /\ InUnitInterval(target)) =>
        /\ ret >= 1
        /\ FLe(target, exact_probability(ret, days))
        /\ \A m \in 1..(ret - 1) : FLt(exact_probability(m, days), target)
        /\ (days = 365 /\ target = FRat(50, 100)) => ret = 23
        /\ (days = 365 /\ target = FRat(99, 100)) => ret = 57

SmallestGroupWitness ==
    pc = "sg_done" /\ days = 365 /\ target = FRat(99, 100) /\ ret = 57

ScanBounded ==
    (pc \in {"sg_loop", "sg_done"} /\ days >= 1 /\ FLe(target, FOne)) =>
        /\ n <= days + 1
        /\ (pc = "sg_loop" /\ n = days + 1) => ~FLt(exact_probability(n, days), target)

ScanAdvances ==
    (pc = "sg_loop") =>
        \/ pc' = "sg_loop" /\ n' = n + 1
        \/ pc' = "sg_done" /\ n' = n /\ ret' = n

\* C2: for a target <= 1 and days >= 1 the scan of smallest_group_for ends,
\* with n <= days + 1: n starts at 1, every iteration adds exactly one to it,
\* it never exceeds days + 1, and at days + 1 the loop test fails, so the
\* loop makes at most days iterations before it returns n.
ScanTerminates == []ScanBounded /\ [][ScanAdvances]_vars

ScanTerminatesWitness ==
    pc = "sg_done" /\ days >= 2 /\ target = FOne /\ ret = days + 1

\* C3: for days >= 1, exact_probability(n1, days) <= exact_probability(n2, days)
\* whenever n1 <= n2, across its three branches.
ExactProbabilityMonotone ==
    (pc = "ep_done" /\ days >= 1) =>
        \A in \in ProbabilityInputs :
            (in[2] = days /\ n <= in[1]) => FLe(ret, exact_probability(in[1], days))

ExactProbabilityMonotoneWitness ==
    /\ pc = "ep_done" /\ 2 <= n /\ n < days
    /\ FLt(FZero, ret) /\ FLt(ret, exact_probability(n + 1, days))
    /\ FLt(exact_probability(n + 1, days), FOne)

\* C4 as claimed: exact_probability(n, days) is 1 for all integers n > days.
PigeonholeForAllIntegers ==
    (pc = "ep_done" /\ n > days) => ret = FOne

\* C4: exact_probability(n, days) is 1 for all integers n >= 2 with n > days.
PigeonholeAboveOne ==
    (pc = "ep_done" /\ n > days /\ n >= 2) => ret = FOne

PigeonholeWitness ==
    pc = "ep_done" /\ n = days + 1 /\ days >= 1 /\ ret = FOne

\* C5: exact_probability(n, days) is 0 for all integers n <= 1, whatever the
\* value of days.
ZeroBelowTwo ==
    (pc = "ep_done" /\ n <= 1) => ret = FZero

ZeroBelowTwoWitness ==
    pc = "ep_done" /\ n = 1 /\ days < n /\ ret = FZero

\* C6: for n >= 0 and either value of include_leap, generate_group returns
\* without an exception a list of exactly n dates, each with its month in
\* 1..12 and its day within that month of the selected calendar.
GenerateGroupReturns ==
    (pc = "gg_done" /\ n >= 0) =>
        /\ exc = ""
        /\ Len(ret) = n
        /\ \A i \in 1..Len(ret) :
              /\ ret[i].month \in 1..12
              /\ 1 <= ret[i].day
              /\ ret[i].day <= month_lengths(include_leap)[ret[i].month]

\* C7: has_shared_birthday(dates) is true exactly when two different
\* positions hold the same (month, day), that is when there are fewer
\* distinct (month, day) pairs than dates; the years do not matter, and the
\* empty list gives false.
SharedIffRepeatedDay ==
    pc = "hs_done" =>
        /\ ret = (\E i, j \in 1..Len(dates) :
                     /\ i # j
                     /\ dates[i].month = dates[j].month
                     /\ dates[i].day = dates[j].day)
        /\ ret = (Cardinality(DaysOf(dates))
                     < Len(dates))
        /\ \A ys \in [1..Len(dates) -> SampleYears] :
              LET other == [i \in 1..Len(dates) |-> [dates[i] EXCEPT !.year = ys[i]]]
              IN  (\A i \in 1..Len(dates) : other[i] \in SampleDates)
                      => has_shared_birthday(other) = ret
        /\ (dates = <<>>) => (ret = FALSE)

SharedIffRepeatedDayWitness ==
    /\ pc = "hs_done" /\ ret = TRUE
    /\ \E i, j \in 1..Len(dates) :
          /\ dates[i].month = dates[j].month
          /\ dates[i].day = dates[j].day
          /\ dates[i].year # dates[j].year

\* C8: the keys of find_shared_birthdays(dates) are exactly the (month, day)
\* pairs held by at least two positions of dates, and the value of a key is
\* the number of positions that hold it.
SharedCountsExact ==
    pc = "fs_done" =>
        /\ DOMAIN ret = CollidingDays(dates)
        /\ \A md \in DOMAIN ret : ret[md] = Occurrences(dates, md)

SharedCountsWitness ==
    /\ pc = "fs_done" /\ Len(dates) = 3
    /\ \E md \in DOMAIN ret : ret[md] = 2
    /\ \E i \in 1..Len(dates) : <<dates[i].month, dates[i].day>> \notin DOMAIN ret

\* C9: simulated_probability with trials >= 1 runs exactly trials trials and
\* returns hits / trials, a value in [0, 1]; throughout the loop
\* 0 <= hits <= trials completed.
SimulationRunsAllTrials ==
    /\ (pc \in {"sim_loop", "sim_done"}) => (0 <= hits /\ hits <= done /\ done <= trials)
    /\ (pc = "sim_done" /\ trials >= 1) =>
          /\ exc = ""
          /\ done = trials
          /\ ret = FRat(hits, trials)
          /\ InUnitInterval(ret)

BucketLabels ==
    {"0 days with duplicates", "1 day with duplicates", "2+ days with duplicates"}

BucketCount(b, label) == IF label \in DOMAIN b THEN b[label] ELSE 0

\* The label for a trial whose group has the colliding days and counts d
LabelOfTrial(d) ==
    LET k == Cardinality(DOMAIN d)
    IN  IF k = 0 THEN "0 days with duplicates"
        ELSE IF k = 1 THEN "1 day with duplicates"
        ELSE "2+ days with duplicates"

HistogramState ==
    (pc \in {"hist_loop", "hist_done"}) =>
        /\ DOMAIN buckets \subseteq BucketLabels
        /\ \A label \in DOMAIN buckets : buckets[label] >= 1
        /\ BucketCount(buckets, "0 days with duplicates")
              + BucketCount(buckets, "1 day with duplicates")
              + BucketCount(buckets, "2+ days with duplicates") = done
        /\ done <= trials
        /\ \A md \in DOMAIN dups : dups[md] >= 2
        /\ (done >= 1) => (LabelOfTrial(dups) \in DOMAIN buckets)
        /\ (pc = "hist_done" /\ exc = "") => (ret = buckets /\ done = trials)

HistogramStep ==
    (pc = "hist_loop") =>
        IF done' = done + 1
        THEN \A label \in BucketLabels :
                 BucketCount(buckets', label) =
                     BucketCount(buckets, label)
                         + (IF label = LabelOfTrial(dups') THEN 1 ELSE 0)
        ELSE buckets' = buckets

\* C10: each completed trial of collision_histogram adds one to exactly the
\* bucket chosen by the number of distinct colliding days of its group (the
\* number of keys of dups: 0, 1, 2 or more) and leaves the other buckets
\* alone; the bucket counts sum to the number of trials completed, and to
\* trials on return; the keys are among the three labels; a bucket is present
\* only with a count of at least one, and the bucket of the last trial is
\* present; the dict returned is the bucket dict.
HistogramBuckets == []HistogramState /\ [][HistogramStep]_vars

HistogramWitness ==
    /\ pc = "hist_done" /\ exc = "" /\ trials = 3
    /\ DOMAIN ret = {"0 days with duplicates", "2+ days with duplicates"}

====
